---- MODULE Spec2Model ----
(***************************************************************************)
(* Model of src/app.py: the "Get Detailed Notes" handler of the YouTube    *)
(* summarizer, with the identifier extractor (extract_video_id), the       *)
(* caption normalizer (extract_text_from_vtt), the two transcript          *)
(* strategies and their fallback (extract_transcript_with_ytdlp,           *)
(* extract_transcript_details).                                            *)
(*                                                                         *)
(* Python str values are TLA+ strings; every regular expression, prefix    *)
(* test, slice and length test of the source is computed character by      *)
(* character on them.                                                      *)
(***************************************************************************)
EXTENDS Integers, Sequences, FiniteSets, TLC

VARIABLES
    pc,               \* position of the script run / of the pure-function harness
    youtube_link,     \* st.text_input value (app.py:179)
    video_id,         \* extract_video_id(youtube_link) (app.py:189)
    env,              \* what the outside world answers during this run
    result,           \* extract_transcript_with_ytdlp's return value (app.py:143)
    transcript_text,  \* extract_transcript_details' return value (app.py:193)
    path,             \* which return statement of extract_transcript_details was taken
    calls,            \* the strategies invoked so far, in order
    raised,           \* the exception that escaped to the script, NoExc if none
    shown,            \* what the handler rendered: "none", "st.error", "summary"
    content,          \* text of a caption file handed to extract_text_from_vtt
    once,             \* extract_text_from_vtt applied to content
    twice             \* extract_text_from_vtt applied to a file holding `once`

vars == <<pc, youtube_link, video_id, env, result, transcript_text, path,
          calls, raised, shown, content, once, twice>>

\* an optional str: Python's None, or the one-element tuple of a str
None == <<>>
Some(x) == <<x>>

-----------------------------------------------------------------------------
(* ---------------------------- str helpers ------------------------------ *)

Ch(s, i) == SubSeq(s, i, i)                       \* s[i-1] in Python

Digits == {"0", "1", "2", "3", "4", "5", "6", "7", "8", "9"}

IsDigit(c) == c \in Digits                        \* regex \d

IsSpace(c) == c \in {" ", "\n", "\t"}             \* regex \s, str.strip()

startswith(s, p) == Len(s) >= Len(p) /\ SubSeq(s, 1, Len(p)) = p

endswith(s, p) ==
    Len(s) >= Len(p) /\ SubSeq(s, Len(s) - Len(p) + 1, Len(s)) = p

Slice(s, n) == SubSeq(s, 1, IF Len(s) < n THEN Len(s) ELSE n)     \* s[:n]

\* s[i-1:].startswith(p)
MatchAt(s, p, i) ==
    i + Len(p) - 1 <= Len(s) /\ SubSeq(s, i, i + Len(p) - 1) = p

\* p in s
Contains(s, p) == \E i \in 1..(Len(s) - Len(p) + 1) : MatchAt(s, p, i)

\* first index >= i of s holding character c, or 0
IndexFrom(s, c, i) ==
    IF \E j \in i..Len(s) : Ch(s, j) = c
    THEN CHOOSE j \in i..Len(s) :
            Ch(s, j) = c /\ \A k \in i..(j - 1) : Ch(s, k) # c
    ELSE 0

\* first index >= i of s holding a character of the set cs, or Len(s)+1
FirstOf(s, cs, i) ==
    IF \E j \in i..Len(s) : Ch(s, j) \in cs
    THEN CHOOSE j \in i..Len(s) :
            Ch(s, j) \in cs /\ \A k \in i..(j - 1) : Ch(s, k) \notin cs
    ELSE Len(s) + 1

\* first index >= i of s holding a character outside the set cs, or Len(s)+1
SkipWhile(s, cs, i) ==
    IF \E j \in i..Len(s) : Ch(s, j) \notin cs
    THEN CHOOSE j \in i..Len(s) :
            Ch(s, j) \notin cs /\ \A k \in i..(j - 1) : Ch(s, k) \in cs
    ELSE Len(s) + 1

\* last index <= i of s holding a non-whitespace character, or 0
LastNonSpace(s, i) ==
    IF \E j \in 1..i : ~IsSpace(Ch(s, j))
    THEN CHOOSE j \in 1..i :
            ~IsSpace(Ch(s, j)) /\ \A k \in (j + 1)..i : IsSpace(Ch(s, k))
    ELSE 0

strip(s) ==
    SubSeq(s, SkipWhile(s, {" ", "\n", "\t"}, 1), LastNonSpace(s, Len(s)))

-----------------------------------------------------------------------------
(* ----------------------------- exceptions ------------------------------ *)

\* an exception instance: its class and str(e)
Exc(cls, msg) == [cls |-> cls, msg |-> msg]
NoExc == Exc("", "")

Return(v) == [value |-> v, raised |-> NoExc]      \* the call returns v
Raise(e) == [value |-> "", raised |-> e]          \* the call raises e

\* base class of each exception class that can be raised in the two
\* strategies, the normalizer and urlparse
ExceptionBase ==
    [c \in {"Exception", "ValueError", "NameError", "OSError",
            "CouldNotRetrieveTranscript", "VideoUnavailable",
            "TranscriptsDisabled", "NoTranscriptFound", "DownloadError"} |->
        CASE c = "Exception" -> ""
          [] c \in {"VideoUnavailable", "TranscriptsDisabled",
                    "NoTranscriptFound"} -> "CouldNotRetrieveTranscript"
          [] OTHER -> "Exception"]

\* an except clause that only catches the class it names, not its subclasses
Catches_Exact(handler, cls) == cls # "" /\ cls = handler

\* does `except handler:` catch an exception of class cls
RECURSIVE Catches(_, _)
Catches(handler, cls) ==
    IF cls = "" THEN FALSE
    ELSE IF cls = handler THEN TRUE
    ELSE Catches(handler, ExceptionBase[cls])

-----------------------------------------------------------------------------
(* ------------------ extract_text_from_vtt (app.py:106) ----------------- *)

\* r'\d{2}:\d{2}:\d{2}\.\d{3} --> \d{2}:\d{2}:\d{2}\.\d{3}'; d stands for \d
TimestampPattern == "dd:dd:dd.ddd --> dd:dd:dd.ddd"

TimestampAt(s, i) ==
    /\ i + Len(TimestampPattern) - 1 <= Len(s)
    /\ \A k \in 1..Len(TimestampPattern) :
          IF Ch(TimestampPattern, k) = "d"
          THEN IsDigit(Ch(s, i + k - 1))
          ELSE Ch(s, i + k - 1) = Ch(TimestampPattern, k)

\* start of the first match at or after i, or 0
NextTimestamp(s, i) ==
    IF \E j \in i..Len(s) : TimestampAt(s, j)
    THEN CHOOSE j \in i..Len(s) :
            TimestampAt(s, j) /\ \A k \in i..(j - 1) : ~TimestampAt(s, k)
    ELSE 0

\* re.sub(TimestampPattern, '', s): the text from index i on, without the
\* matches found scanning from the left
RECURSIVE SubTimestamps(_, _)
SubTimestamps(s, i) ==
    IF NextTimestamp(s, i) = 0 THEN SubSeq(s, i, Len(s))
    ELSE SubSeq(s, i, NextTimestamp(s, i) - 1)
         \o SubTimestamps(s, NextTimestamp(s, i) + Len(TimestampPattern))

\* end of a match of r'<[^>]+>' starting at i, or 0
TagEnd(s, i) ==
    IF Ch(s, i) = "<" /\ i + 1 <= Len(s) /\ Ch(s, i + 1) # ">"
    THEN IndexFrom(s, ">", i + 2)
    ELSE 0

\* start of the first tag at or after i, or 0
NextTag(s, i) ==
    IF \E j \in i..Len(s) : TagEnd(s, j) # 0
    THEN CHOOSE j \in i..Len(s) :
            TagEnd(s, j) # 0 /\ \A k \in i..(j - 1) : TagEnd(s, k) = 0
    ELSE 0

\* re.sub(r'<[^>]+>', '', s)
RECURSIVE SubTags(_, _)
SubTags(s, i) ==
    IF NextTag(s, i) = 0 THEN SubSeq(s, i, Len(s))
    ELSE SubSeq(s, i, NextTag(s, i) - 1)
         \o SubTags(s, TagEnd(s, NextTag(s, i)) + 1)

VttHeader == "WEBVTT\n\n"

\* start of the first header at or after i, or 0
NextHeader(s, i) ==
    IF \E j \in i..Len(s) : MatchAt(s, VttHeader, j)
    THEN CHOOSE j \in i..Len(s) :
            MatchAt(s, VttHeader, j)
            /\ \A k \in i..(j - 1) : ~MatchAt(s, VttHeader, k)
    ELSE 0

\* re.sub(r'WEBVTT\n\n', '', s)
RECURSIVE SubHeader(_, _)
SubHeader(s, i) ==
    IF NextHeader(s, i) = 0 THEN SubSeq(s, i, Len(s))
    ELSE SubSeq(s, i, NextHeader(s, i) - 1)
         \o SubHeader(s, NextHeader(s, i) + Len(VttHeader))

\* s.replace(two characters of cs, ' '): halves a run instead of collapsing it
RECURSIVE SubRuns_Pairs(_, _, _)
SubRuns_Pairs(s, cs, i) ==
    IF FirstOf(s, cs, i) > Len(s) THEN SubSeq(s, i, Len(s))
    ELSE SubSeq(s, i, FirstOf(s, cs, i) - 1) \o " "
         \o SubRuns_Pairs(s, cs,
                IF /\ FirstOf(s, cs, i) + 1 <= Len(s)
                   /\ Ch(s, FirstOf(s, cs, i) + 1) \in cs
                THEN FirstOf(s, cs, i) + 2 ELSE FirstOf(s, cs, i) + 1)

\* re.sub(cs+, ' ', s) for a character class cs
RECURSIVE SubRuns(_, _, _)
SubRuns(s, cs, i) ==
    IF FirstOf(s, cs, i) > Len(s) THEN SubSeq(s, i, Len(s))
    ELSE SubSeq(s, i, FirstOf(s, cs, i) - 1) \o " "
         \o SubRuns(s, cs, SkipWhile(s, cs, FirstOf(s, cs, i)))

\* a match of r'^\d+\n' (re.MULTILINE) starts at i and its digits end before e
LineNumberAt(s, i, e) ==
    /\ i = 1 \/ Ch(s, i - 1) = "\n"
    /\ e > i
    /\ e <= Len(s)
    /\ Ch(s, e) = "\n"

\* end of a match of r'^\d+\n' (re.MULTILINE) starting at i, or 0
LineNumberEnd(s, i) ==
    IF LineNumberAt(s, i, SkipWhile(s, Digits, i))
    THEN SkipWhile(s, Digits, i)
    ELSE 0

\* start of the first line number at or after i, or 0
NextLineNumber(s, i) ==
    IF \E j \in i..Len(s) : LineNumberEnd(s, j) # 0
    THEN CHOOSE j \in i..Len(s) :
            LineNumberEnd(s, j) # 0
            /\ \A k \in i..(j - 1) : LineNumberEnd(s, k) = 0
    ELSE 0

\* re.sub(r'^\d+\n', '', s, flags=re.MULTILINE)
RECURSIVE SubLineNumbers(_, _)
SubLineNumbers(s, i) ==
    IF NextLineNumber(s, i) = 0 THEN SubSeq(s, i, Len(s))
    ELSE SubSeq(s, i, NextLineNumber(s, i) - 1)
         \o SubLineNumbers(s, LineNumberEnd(s, NextLineNumber(s, i)) + 1)

\* app.py:116-124, the text left after the six substitutions and strip()
CleanText(c) ==
    LET t1 == SubTimestamps(c, 1)
        t2 == SubTags(t1, 1)
        t3 == SubHeader(t2, 1)
        t4 == SubRuns(t3, {"\n"}, 1)
        t5 == SubLineNumbers(t4, 1)
        t6 == SubRuns(t5, {" ", "\n", "\t"}, 1)
    IN  strip(t6)

MinTextLen == 10          \* app.py:128
PreviewLen == 500         \* app.py:129

TooShortPrefix == "Error: Extracted text too short. VTT content: "
ReadErrorPrefix == "Error reading VTT file: "

\* a caption file on disk: open()/read() yields its text or raises
VttFile(c) == [exc |-> NoExc, content |-> c]
BadVttFile(e) == [exc |-> e, content |-> ""]

\* app.py:128-131
CheckLength(raw, text) ==
    IF Len(text) < MinTextLen
    THEN TooShortPrefix \o Slice(raw, PreviewLen)
    ELSE text

extract_text_from_vtt(vtt_file) ==
    IF vtt_file.exc # NoExc
    THEN IF Catches("Exception", vtt_file.exc.cls)
         THEN Return(ReadErrorPrefix \o vtt_file.exc.msg)
         ELSE Raise(vtt_file.exc)
    ELSE Return(CheckLength(vtt_file.content, CleanText(vtt_file.content)))

-----------------------------------------------------------------------------
(* --------------------- extract_video_id (app.py:31) -------------------- *)

Letters ==
    {"a", "b", "c", "d", "e", "f", "g", "h", "i", "j", "k", "l", "m",
     "n", "o", "p", "q", "r", "s", "t", "u", "v", "w", "x", "y", "z",
     "A", "B", "C", "D", "E", "F", "G", "H", "I", "J", "K", "L", "M",
     "N", "O", "P", "Q", "R", "S", "T", "U", "V", "W", "X", "Y", "Z"}

SchemeChars == Letters \cup Digits \cup {"+", "-", "."}

\* urllib.parse.urlparse on URLs without ';' parameters, '%' escapes or
\* control characters, in the order urlsplit works: the scheme up to the
\* first ':', then '//' netloc up to the first of "/?#", then the '#'
\* fragment is cut off, then the '?' query; a netloc with an unbalanced
\* bracket raises ValueError
SplitQuery(scheme, netloc, rest) ==
    [raised |-> IF Contains(netloc, "[") # Contains(netloc, "]")
                THEN Exc("ValueError", "Invalid IPv6 URL")
                ELSE NoExc,
     scheme |-> scheme,
     netloc |-> netloc,
     path   |-> SubSeq(rest, 1, FirstOf(rest, {"?"}, 1) - 1),
     query  |-> SubSeq(rest, FirstOf(rest, {"?"}, 1) + 1, Len(rest))]

SplitFragment(scheme, netloc, rest) ==
    SplitQuery(scheme, netloc, SubSeq(rest, 1, FirstOf(rest, {"#"}, 1) - 1))

SplitNetloc(scheme, rest) ==
    IF startswith(rest, "//")
    THEN SplitFragment(scheme,
            SubSeq(rest, 3, FirstOf(rest, {"/", "?", "#"}, 3) - 1),
            SubSeq(rest, FirstOf(rest, {"/", "?", "#"}, 3), Len(rest)))
    ELSE SplitFragment(scheme, "", rest)

SplitScheme(url, colon) ==
    IF /\ colon > 1
       /\ Ch(url, 1) \in Letters
       /\ \A k \in 1..(colon - 1) : Ch(url, k) \in SchemeChars
    THEN SplitNetloc(SubSeq(url, 1, colon - 1), SubSeq(url, colon + 1, Len(url)))
    ELSE SplitNetloc("", url)

urlparse(url) == SplitScheme(url, IndexFrom(url, ":", 1))

\* the value of one 'name=value' field if its name is `key` and its value
\* is not empty, as a sequence of at most one value
FieldValue(field, eq, key) ==
    IF eq # 0 /\ SubSeq(field, 1, eq - 1) = key /\ Len(field) > eq
    THEN <<SubSeq(field, eq + 1, Len(field))>>
    ELSE <<>>

\* parse_qs(query).get(key): the list of values of `key`, in order; fields
\* are separated by '&', split at their first '=', and fields without '='
\* or with an empty value are dropped
RECURSIVE parse_qs_get(_, _, _)
parse_qs_get(query, key, i) ==
    IF i > Len(query) THEN <<>>
    ELSE FieldValue(SubSeq(query, i, FirstOf(query, {"&"}, i) - 1),
                    IndexFrom(SubSeq(query, i, FirstOf(query, {"&"}, i) - 1),
                              "=", 1),
                    key)
         \o parse_qs_get(query, key, FirstOf(query, {"&"}, i) + 1)

\* membership test of app.py:36 and app.py:40
HostMatches(needle, netloc) == Contains(netloc, needle)

\* app.py:38-39
ShortId(id) == IF id # "" THEN Some(id) ELSE None

\* app.py:42-43
QueryId(v) == IF v # <<>> THEN Some(v[1]) ELSE None

\* app.py:34-47 once urlparse has returned or raised
IdOf(parsed_url) ==
    IF parsed_url.raised # NoExc
    THEN IF Catches("Exception", parsed_url.raised.cls)
         THEN Return(None)
         ELSE Raise(parsed_url.raised)
    ELSE IF HostMatches("youtu.be", parsed_url.netloc)
         THEN Return(ShortId(SubSeq(parsed_url.path, 2, Len(parsed_url.path))))
    ELSE IF \/ HostMatches("youtube.com", parsed_url.netloc)
            \/ HostMatches("www.youtube.com", parsed_url.netloc)
         THEN Return(QueryId(parse_qs_get(parsed_url.query, "v", 1)))
    ELSE Return(None)

\* the value returned, and the exception that escapes (NoExc: none)
extract_video_id(url) == IdOf(urlparse(url))

\* the links typed into the text input: scheme, host, path and query parts
UrlSchemes == {"https://", "http://", ""}
UrlHosts == {"youtu.be", "youtube.com", "www.youtube.com", "m.youtube.com",
             "notyoutube.com", "youtu.be.evil.com", "vimeo.com", "[youtu.be", ""}
UrlPaths == {"", "/", "/abc123", "/watch"}
UrlQueries == {"", "?v=abc123", "?v=abc123&t=30s", "?t=30s&v=abc123", "?t=30s", "?v="}

Urls ==
    {s \o h \o p \o q : s \in UrlSchemes, h \in UrlHosts,
                        p \in UrlPaths, q \in UrlQueries}

-----------------------------------------------------------------------------
(* -------------- extract_transcript_with_ytdlp (app.py:50) -------------- *)

\* names bound at module level by the import statements (app.py:1-5)
ImportedNames ==
    {"st", "genai", "YouTubeTranscriptApi", "TranscriptsDisabled",
     "VideoUnavailable", "urlparse", "parse_qs", "yt_dlp"}

\* evaluating a global name that no import bound raises NameError
NameLookup(name) ==
    IF name \in ImportedNames
    THEN NoExc
    ELSE Exc("NameError", "name '" \o name \o "' is not defined")

\* first directory entry whose name ends with '.en.vtt', as a sequence of
\* at most one entry (app.py:78-79, 92-93)
RECURSIVE FirstVtt(_, _)
FirstVtt(files, i) ==
    IF i > Len(files) THEN <<>>
    ELSE IF endswith(files[i].name, ".en.vtt") THEN <<files[i]>>
    ELSE FirstVtt(files, i + 1)

\* app.py:75-85 and 89-99: download, then scan the scratch directory
DownloadAndRead(e) ==
    IF e.download # NoExc THEN Raise(e.download)
    ELSE IF FirstVtt(e.files, 1) # <<>>
         THEN extract_text_from_vtt(FirstVtt(e.files, 1)[1].file)
    ELSE Return("VTT file not found")

\* the try block, app.py:52-101
YtdlpBody(video_url, e) ==
    IF e.tempdir # NoExc THEN Raise(e.tempdir)                    \* line 55
    ELSE IF NameLookup("os") # NoExc THEN Raise(NameLookup("os")) \* line 62
    ELSE IF e.extract_info # NoExc THEN Raise(e.extract_info)     \* line 66
    ELSE IF "en" \in e.subtitles THEN DownloadAndRead(e)
    ELSE IF "en" \in e.automatic_captions THEN DownloadAndRead(e)
    ELSE Return("No English subtitles found")

\* the except clause, app.py:103-104
YtdlpExcept(r) ==
    IF r.raised # NoExc /\ Catches("Exception", r.raised.cls)
    THEN Return("yt-dlp error: " \o r.raised.msg)
    ELSE r

extract_transcript_with_ytdlp(video_url, e) ==
    YtdlpExcept(YtdlpBody(video_url, e))

-----------------------------------------------------------------------------
(* --------------- extract_transcript_details (app.py:137) --------------- *)

AcceptLen == 100          \* app.py:146

\* the test without its "Error" prefix condition
AcceptsPrimary_NoErrorTest(r) == Len(r) > 100 /\ ~startswith(r, "No")

\* app.py:146, "yt-dlp succeeded"
AcceptsPrimary(r) ==
    /\ Len(r) > AcceptLen
    /\ ~startswith(r, "Error")
    /\ ~startswith(r, "No")

\* " ".join(texts)
RECURSIVE join(_)
join(texts) ==
    IF texts = <<>> THEN ""
    ELSE IF Len(texts) = 1 THEN texts[1]
    ELSE texts[1] \o " " \o join(Tail(texts))

UnavailableText == "Error: The video is unavailable or private."
DisabledText == "Error: Transcripts are disabled for this video."
CompositePrefix == "Both methods failed. yt-dlp result: "

\* the except clauses of the outer try, app.py:163-168, in order
OuterExcept(exc) ==
    IF Catches("VideoUnavailable", exc.cls)
    THEN [value |-> UnavailableText, raised |-> NoExc, path |-> "unavailable"]
    ELSE IF Catches("TranscriptsDisabled", exc.cls)
    THEN [value |-> DisabledText, raised |-> NoExc, path |-> "disabled"]
    ELSE IF Catches("Exception", exc.cls)
    THEN [value |-> "Error: " \o exc.msg, raised |-> NoExc, path |-> "error"]
    ELSE [value |-> "", raised |-> exc, path |-> "raised"]

\* the inner try of the else branch, app.py:152-161
SecondaryStrategy(video, e, primary) ==
    IF e.api = NoExc
    THEN [value |-> join(e.transcript_data), raised |-> NoExc,
          path |-> "secondary"]
    ELSE IF Catches("Exception", e.api.cls)
    THEN [value |-> CompositePrefix \o primary, raised |-> NoExc,
          path |-> "composite"]
    ELSE OuterExcept(e.api)

-----------------------------------------------------------------------------
(* ------------------------- the outside world --------------------------- *)

TempDirErrors ==
    {Exc("OSError", "[Errno 28] No space left on device: '/tmp/tmpk3x9q2ab'"),
     Exc("OSError", "[Errno 2] No usable temporary directory found in ['/tmp', '/var/tmp', '/usr/tmp', '/home/appuser/app']")}

ExtractInfoErrors ==
    {Exc("DownloadError", "ERROR: [youtube] abc123: Private video. Sign in if you've been granted access to this video")}

ApiErrors ==
    {Exc("VideoUnavailable", "The video is no longer available"),
     Exc("TranscriptsDisabled", "Subtitles are disabled for this video"),
     Exc("NoTranscriptFound", "No transcripts were found for any of the requested language codes: ['en']")}

TimestampLine(k) ==
    "00:00:0" \o Ch("0123456789", k) \o ".000 --> 00:00:0"
              \o Ch("0123456789", k + 1) \o ".000\n"

DocHello == VttHeader \o TimestampLine(1) \o "hello\n\n"
                      \o TimestampLine(2) \o "world\n"
DocShort == VttHeader \o TimestampLine(1) \o "hi\n\n"
                      \o TimestampLine(2) \o "ok\n"
DocLong ==
    VttHeader \o TimestampLine(1)
      \o "welcome back to the channel today we are going to talk about\n\n"
      \o TimestampLine(2)
      \o "how captions are turned into plain text for a summary\n"
DocNow ==
    VttHeader \o TimestampLine(1)
      \o "Now that we have seen how the model is trained we can look at\n\n"
      \o TimestampLine(2)
      \o "how the fallback between the two strategies works\n"

Directories ==
    {<<>>, <<[name |-> "Video.en.vtt",
              file |-> BadVttFile(Exc("OSError", "[Errno 5] Input/output error"))]>>}
    \cup {<<[name |-> "Video.en.vtt", file |-> VttFile(d)]>> :
             d \in {DocHello, DocShort, DocLong, DocNow}}

Envs ==
    {[tempdir |-> t, extract_info |-> x, subtitles |-> tr[1],
      automatic_captions |-> tr[2], download |-> NoExc, files |-> f,
      api |-> a[1], transcript_data |-> a[2]] :
        t \in {NoExc} \cup TempDirErrors,
        x \in {NoExc} \cup ExtractInfoErrors,
        tr \in {<<{}, {}>>, <<{"en"}, {}>>, <<{}, {"en"}>>},
        f \in Directories,
        a \in {<<e, <<>>>> : e \in ApiErrors}
              \cup {<<NoExc, <<>>>>, <<NoExc, <<"hello", "world">>>>}}

Links ==
    {"https://youtu.be/abc123",
     "https://www.youtube.com/watch?v=abc123&t=30s",
     "https://vimeo.com/abc123"}

-----------------------------------------------------------------------------
(* ------------- the "Get Detailed Notes" handler (app.py:188) ----------- *)

Init ==
    /\ pc = "idle"
    /\ youtube_link \in Links
    /\ env \in Envs
    /\ video_id = None
    /\ result = ""
    /\ transcript_text = ""
    /\ path = "none"
    /\ calls = <<>>
    /\ raised = NoExc
    /\ shown = "none"
    /\ content = ""
    /\ once = ""
    /\ twice = ""

\* app.py:188-191: the button is pressed and the link is parsed
ClickButton ==
    /\ pc = "idle"
    /\ LET r == extract_video_id(youtube_link)
       IN  /\ raised' = r.raised
           /\ video_id' = r.value
           /\ pc' = IF r.raised # NoExc THEN "crashed"
                    ELSE IF r.value = None THEN "done"
                    ELSE "primary"
           /\ shown' = IF r.raised = NoExc /\ r.value = None
                       THEN "st.error" ELSE shown
    /\ UNCHANGED <<youtube_link, env, result, transcript_text, path, calls,
                   content, once, twice>>

\* app.py:140-148: the primary strategy and the test of its result
PrimaryStep ==
    /\ pc = "primary"
    /\ calls' = Append(calls, "yt-dlp")
    /\ LET video_url == "https://www.youtube.com/watch?v=" \o video_id[1]
           r == extract_transcript_with_ytdlp(video_url, env)
           o == OuterExcept(r.raised)
       IN  IF r.raised # NoExc
           THEN /\ result' = result
                /\ transcript_text' = o.value
                /\ path' = o.path
                /\ raised' = o.raised
                /\ pc' = IF o.raised # NoExc THEN "crashed" ELSE "display"
           ELSE /\ result' = r.value
                /\ raised' = raised
                /\ IF AcceptsPrimary(r.value)
                   THEN /\ transcript_text' = r.value
                        /\ path' = "primary"
                        /\ pc' = "display"
                   ELSE /\ UNCHANGED <<transcript_text, path>>
                        /\ pc' = "secondary"
    /\ UNCHANGED <<youtube_link, video_id, env, shown, content, once, twice>>

\* app.py:150-168: the fallback
SecondaryStep ==
    /\ pc = "secondary"
    /\ calls' = Append(calls, "youtube-transcript-api")
    /\ LET o == SecondaryStrategy(video_id[1], env, result)
       IN  /\ transcript_text' = o.value
           /\ path' = o.path
           /\ raised' = o.raised
           /\ pc' = IF o.raised # NoExc THEN "crashed" ELSE "display"
    /\ UNCHANGED <<youtube_link, video_id, env, result, shown, content,
                   once, twice>>

\* app.py:195-200: the handler branches on the returned text
Display ==
    /\ pc = "display"
    /\ shown' = IF startswith(transcript_text, "Error:")
                THEN "st.error" ELSE "summary"
    /\ pc' = "done"
    /\ UNCHANGED <<youtube_link, video_id, env, result, transcript_text,
                   path, calls, raised, content, once, twice>>

Next == ClickButton \/ PrimaryStep \/ SecondaryStep \/ Display

Spec == Init /\ [][Next]_vars

-----------------------------------------------------------------------------
(* --------------------- extract_video_id on its own --------------------- *)

InitUrl ==
    /\ pc = "url"
    /\ youtube_link \in Urls
    /\ env = [kind |-> "url"]
    /\ video_id = None
    /\ result = ""
    /\ transcript_text = ""
    /\ path = "none"
    /\ calls = <<>>
    /\ raised = NoExc
    /\ shown = "none"
    /\ content = ""
    /\ once = ""
    /\ twice = ""

ExtractId ==
    /\ pc = "url"
    /\ video_id' = extract_video_id(youtube_link).value
    /\ raised' = extract_video_id(youtube_link).raised
    /\ pc' = "done"
    /\ UNCHANGED <<youtube_link, env, result, transcript_text, path, calls,
                   shown, content, once, twice>>

NextUrl == ExtractId

SpecUrl == InitUrl /\ [][NextUrl]_vars
-----------------------------------------------------------------------------
(* ------------------- extract_text_from_vtt on its own ------------------ *)

MaxCues == 3              \* cues per caption document
MaxTokens == 5            \* pieces per markup-free input

CueTexts == {"hello", "world", "good morning"}

\* caption documents in the consumed format: an optional header, then per
\* cue an optional index line, a timestamp line and the cue text, which
\* optionally sits inside an inline tag
VttShapes ==
    {[kind |-> "vtt", header |-> h, indices |-> n, tags |-> t, texts |-> x] :
        h \in BOOLEAN, n \in BOOLEAN, t \in BOOLEAN,
        x \in UNION {[1..k -> CueTexts] : k \in 1..MaxCues}}

RECURSIVE BuildCues(_, _)
BuildCues(shape, k) ==
    IF k > Len(shape.texts) THEN ""
    ELSE (IF shape.indices THEN Ch("123456789", k) \o "\n" ELSE "")
         \o TimestampLine(k)
         \o (IF shape.tags THEN "<c>" \o shape.texts[k] \o "</c>"
                           ELSE shape.texts[k])
         \o "\n\n"
         \o BuildCues(shape, k + 1)

BuildDoc(shape) ==
    (IF shape.header THEN VttHeader ELSE "") \o BuildCues(shape, 1)

\* inputs without cue markup: words and whitespace only
FlatTokens == {"hello world", "hi", " ", "\n"}

FlatShapes ==
    {[kind |-> "flat", tokens |-> x] :
        x \in UNION {[1..k -> FlatTokens] : k \in 0..MaxTokens}}

RECURSIVE Concat(_)
Concat(pieces) ==
    IF pieces = <<>> THEN "" ELSE pieces[1] \o Concat(Tail(pieces))

InitVtt ==
    /\ pc = "vtt"
    /\ env \in VttShapes \cup FlatShapes
    /\ content = IF env.kind = "vtt" THEN BuildDoc(env) ELSE Concat(env.tokens)
    /\ youtube_link = ""
    /\ video_id = None
    /\ result = ""
    /\ transcript_text = ""
    /\ path = "none"
    /\ calls = <<>>
    /\ raised = NoExc
    /\ shown = "none"
    /\ once = ""
    /\ twice = ""

\* extract_text_from_vtt on a file holding `content`
Normalize ==
    /\ pc = "vtt"
    /\ once' = extract_text_from_vtt(VttFile(content)).value
    /\ raised' = extract_text_from_vtt(VttFile(content)).raised
    /\ pc' = "again"
    /\ UNCHANGED <<youtube_link, video_id, env, result, transcript_text,
                   path, calls, shown, content, twice>>

\* extract_text_from_vtt on a file holding the first call's value
NormalizeAgain ==
    /\ pc = "again"
    /\ twice' = extract_text_from_vtt(VttFile(once)).value
    /\ pc' = "done"
    /\ UNCHANGED <<youtube_link, video_id, env, result, transcript_text,
                   path, calls, raised, shown, content, once>>

NextVtt == Normalize \/ NormalizeAgain

SpecVtt == InitVtt /\ [][NextVtt]_vars

-----------------------------------------------------------------------------
(* ------------------------------- claims -------------------------------- *)

\* extract_transcript_details was called and has returned
Returned == pc \in {"display", "done"} /\ calls # <<>>

BothStrategies == <<"yt-dlp", "youtube-transcript-api">>

\* the world lets the primary strategy list an English track, download it
\* and read the caption file
PrimaryCanFetch(e) ==
    /\ e.tempdir = NoExc
    /\ e.extract_info = NoExc
    /\ "en" \in e.subtitles \cup e.automatic_captions
    /\ e.download = NoExc
    /\ FirstVtt(e.files, 1) # <<>>
    /\ FirstVtt(e.files, 1)[1].file.exc = NoExc

FetchedFile(e) == FirstVtt(e.files, 1)[1].file

\* C1: when the primary result is rejected and the secondary lookup raises
\* "video unavailable" (or "transcripts disabled"), the value returned is the
\* VideoUnavailable (or TranscriptsDisabled) error text, not the composite
\* text, and no further strategy is tried.
C1_Claim ==
    (Returned /\ calls = BothStrategies) =>
        /\ env.api.cls = "VideoUnavailable" => transcript_text = UnavailableText
        /\ env.api.cls = "TranscriptsDisabled" => transcript_text = DisabledText

\* C2: for every failure value that extract_transcript_details returns, the
\* handler shows an error and does not call the summarization client.
C2_Claim ==
    (pc = "done" /\ path \in {"composite", "unavailable", "disabled", "error"})
        => shown = "st.error"

\* C3: when the primary strategy can fetch a caption document whose
\* normalized text has at least 10 characters and no error marker, the value
\* returned is exactly that text and the secondary strategy is not consulted.
C3_Claim ==
    (Returned /\ PrimaryCanFetch(env)
        /\ Len(CleanText(FetchedFile(env).content)) >= MinTextLen
        /\ ~startswith(CleanText(FetchedFile(env).content), "Error"))
    => /\ transcript_text = CleanText(FetchedFile(env).content)
       /\ calls = <<"yt-dlp">>

\* C4: when the primary result is rejected and the secondary strategy raises
\* something other than "video unavailable" / "transcripts disabled", or
\* yields an empty transcript, the value returned is the composite text, which
\* carries the non-empty primary result.
C4_Claim ==
    (Returned /\ calls = BothStrategies
        /\ \/ env.api.cls \notin {"", "VideoUnavailable", "TranscriptsDisabled"}
           \/ env.api = NoExc /\ join(env.transcript_data) = "")
    => /\ result # ""
       /\ transcript_text = CompositePrefix \o result

\* C5: when the caption document offered to the primary strategy normalizes
\* to fewer than 10 characters, the normalizer yields the "too short" failure
\* text, the acceptance test rejects that text, the value returned does not
\* come from the primary strategy, and the secondary strategy has been tried.
C5_ShortTextFallsBack ==
    (Returned /\ PrimaryCanFetch(env)
        /\ Len(CleanText(FetchedFile(env).content)) < MinTextLen)
    => /\ startswith(extract_text_from_vtt(FetchedFile(env)).value,
                     TooShortPrefix)
       /\ ~AcceptsPrimary(extract_text_from_vtt(FetchedFile(env)).value)
       /\ path # "primary"
       /\ calls = BothStrategies

C5_Witness ==
    /\ pc = "done"
    /\ PrimaryCanFetch(env)
    /\ FetchedFile(env).content = DocShort
    /\ calls = BothStrategies

\* C6: no exception raised in either strategy escapes
\* extract_transcript_details; once a strategy has run and the function is
\* done, its value is a str.
C6_NoExceptionEscapes ==
    /\ raised = NoExc
    /\ pc # "crashed"
    /\ Returned => transcript_text \in STRING

C6_Witness ==
    /\ pc = "done"
    /\ env.tempdir # NoExc
    /\ env.api.cls = "NoTranscriptFound"
    /\ path = "composite"

\* C7: for a caption document in the consumed format (header token, then
\* cues with a timestamp line and optionally an index line and inline tags)
\* whose cue texts total at least 10 characters, the normalizer returns
\* exactly the cue texts joined by single spaces, whichever of cue indices
\* and tags are present.
C7_Claim ==
    (pc = "done" /\ env.kind = "vtt" /\ env.header
        /\ Len(join(env.texts)) >= MinTextLen)
    => once = join(env.texts)

NoCueMarkup(x) ==
    /\ ~Contains(x, "<")
    /\ ~Contains(x, "-->")
    /\ ~Contains(x, "WEBVTT")

\* single spaces only, nothing to trim, not empty
IsFlat(x) ==
    /\ x # ""
    /\ ~Contains(x, "\n")
    /\ ~Contains(x, "\t")
    /\ ~Contains(x, "  ")
    /\ ~startswith(x, " ")
    /\ ~endswith(x, " ")

\* C8 as stated: for every input without cue markup, short or not, with or
\* without whitespace runs, normalizing twice equals normalizing once.
C8_Original ==
    (pc = "done" /\ NoCueMarkup(content)) => twice = once

\* C8 as amended: for every input without cue markup, normalizing twice
\* equals normalizing once when the cleaned text has at least 10 characters,
\* or when the input is a non-empty, already flat text.
C8_Amended ==
    (pc = "done" /\ NoCueMarkup(content)
        /\ (Len(CleanText(content)) >= MinTextLen \/ IsFlat(content)))
    => twice = once

C8_Witness ==
    /\ pc = "done"
    /\ NoCueMarkup(content)
    /\ Len(CleanText(content)) >= MinTextLen
    /\ Contains(content, " \n ")
    /\ once # content
    /\ twice = once

RecognizedHosts == {"youtu.be", "youtube.com", "www.youtube.com"}

\* C9: extract_video_id never raises, and for a link whose host is not
\* youtu.be, youtube.com or www.youtube.com it returns None.
C9_Claim ==
    pc = "done" =>
        /\ raised = NoExc
        /\ urlparse(youtube_link).netloc \notin RecognizedHosts
              => video_id = None

\* C10: a value returned without consulting the secondary strategy is the
\* normalized text of a caption document that the primary strategy fetched,
\* never a failure message of the primary strategy.
C10_Claim ==
    (Returned /\ path = "primary") =>
        /\ PrimaryCanFetch(env)
        /\ transcript_text = CleanText(FetchedFile(env).content)

====
